---- MODULE Spec2Model ----
(***************************************************************************)
(* Model of the Bedrock request dispatcher and response decoder of         *)
(* src/src/lib.rs and src/src/models/mod.rs: ask_bedrock, mk_bedrock_call, *)
(* q_to_bcs_with_defaults, process_response, call_bedrock and              *)
(* call_bedrock_stream.  One process issues calls one after the other; the *)
(* collaborators (config file, capability query, invocation, stream,       *)
(* standard output) answer nondeterministically.                           *)
(***************************************************************************)
EXTENDS Integers, Sequences, FiniteSets, TLC

\* ---------------------------------------------------------------- bounds
\* Largest number of events one response stream delivers before it ends.
MaxEvents == 3
\* Largest number of ask_bedrock calls one process makes.
MaxCalls == 2

\* ---------------------------------------------------------------- inputs
Sonnet == "anthropic.claude-3-sonnet-20240229-v1:0"
Haiku == "anthropic.claude-3-haiku-20240307-v1:0"
\* The identifiers matched by q_to_bcs_with_defaults and process_response.
KnownModels == {Sonnet, Haiku}
\* Identifiers a caller may pass; the last two have no match arm.
ModelIds == KnownModels \cup {"anthropic.claude-v2", "ai21.j2-ultra-v1"}

RunTypes == {"Standard", "Captioning"}

NoImage == [present |-> FALSE, base64 |-> "", extension |-> ""]
SomeImage(ext) == [present |-> TRUE, base64 |-> "aGVsbG8=", extension |-> ext]
Images == {NoImage, SomeImage("png")}

Questions == {"Describe this image"}

\* Text is a sequence of characters.
Texts == {<<"a">>, <<"b">>}

\* ---------------------------------------------------------------- results
\* Result<String, _> of a function, with the panic outcome made explicit.
Ok(t) == [kind |-> "Ok", text |-> t, err |-> "none"]
Err(e) == [kind |-> "Err", text |-> <<>>, err |-> e]
Panic(m) == [kind |-> "Panic", text |-> <<>>, err |-> m]
NoResult == [kind |-> "None", text |-> <<>>, err |-> "none"]

\* ---------------------------------------------------------------- payloads
\* A JSON member that is absent, a string, or a value of another type.
AbsentField == [tag |-> "absent", s |-> <<>>]
OtherField == [tag |-> "other", s |-> <<>>]
StrField(t) == [tag |-> "str", s |-> t]

AbsentType == [tag |-> "absent", name |-> ""]
StrType(n) == [tag |-> "str", name |-> n]

\* The "delta" member of a streamed object.
AbsentDelta == [tag |-> "absent", type |-> AbsentType, text |-> AbsentField]
OtherDelta == [tag |-> "other", type |-> AbsentType, text |-> AbsentField]
ObjDelta(ty, tx) == [tag |-> "obj", type |-> ty, text |-> tx]

\* The "content" member of a complete response.
AbsentContent == [tag |-> "absent", items |-> <<>>]
ListContent(its) == [tag |-> "list", items |-> its]

\* Payload bytes: not JSON at all, a JSON value that is no object, or an object.
InvalidPayload == [tag |-> "invalid", delta |-> AbsentDelta, content |-> AbsentContent]
NonObjectPayload == [tag |-> "other", delta |-> AbsentDelta, content |-> AbsentContent]
ObjPayload(d, c) == [tag |-> "obj", delta |-> d, content |-> c]

\* No payload was received.
NoPayload == [tag |-> "none", delta |-> AbsentDelta, content |-> AbsentContent]

\* Payloads a stream chunk may carry.
ChunkPayloads ==
    {InvalidPayload, NonObjectPayload,
     ObjPayload(AbsentDelta, AbsentContent),
     ObjPayload(OtherDelta, AbsentContent),
     ObjPayload(ObjDelta(AbsentType, StrField(<<"a">>)), AbsentContent),
     ObjPayload(ObjDelta(StrType("input_json_delta"), StrField(<<"b">>)), AbsentContent),
     ObjPayload(ObjDelta(StrType("text_delta"), AbsentField), AbsentContent),
     ObjPayload(ObjDelta(StrType("text_delta"), OtherField), AbsentContent)}
    \cup {ObjPayload(ObjDelta(StrType("text_delta"), StrField(t)), AbsentContent) : t \in Texts}

\* Payloads a complete (non-streamed) response may carry.
ResponsePayloads ==
    {InvalidPayload, NonObjectPayload,
     ObjPayload(AbsentDelta, AbsentContent),
     ObjPayload(AbsentDelta, ListContent(<<>>)),
     ObjPayload(AbsentDelta, ListContent(<<[text |-> OtherField]>>)),
     ObjPayload(AbsentDelta, ListContent(<<[text |-> StrField(<<"a">>)]>>)),
     ObjPayload(AbsentDelta, ListContent(<<[text |-> StrField(<<"b">>)], [text |-> StrField(<<"a">>)]>>))}

\* serde_json::from_slice::<ClaudeV3Response>: the payload is an object whose
\* content member is a list of items that each carry a string text.
ClaudeV3ResponseParses(p) ==
    /\ p.tag = "obj"
    /\ p.content.tag = "list"
    /\ \A i \in 1..Len(p.content.items) : p.content.items[i].text.tag = "str"

\* process_response, the arm of the two Claude 3 identifiers with streaming = false.
claude3_complete(p) ==
    IF ~ClaudeV3ResponseParses(p) THEN Err("parse")
    ELSE IF Len(p.content.items) = 0 THEN Panic("index out of bounds")
    ELSE Ok(p.content.items[1].text.s)

\* A decoder that returns the text of any delta object, whatever its type.
claude3_chunk_any_delta(p) ==
    IF p.tag = "invalid" THEN Err("parse")
    ELSE IF p.tag = "obj" /\ p.delta.tag = "obj"
         THEN IF p.delta.text.tag = "str" THEN Ok(p.delta.text.s) ELSE Err("text")
         ELSE Ok(<<>>)

\* A decoder that answers a text_delta without a usable text with the empty string.
claude3_chunk_lenient(p) ==
    IF p.tag = "invalid" THEN Err("parse")
    ELSE IF /\ p.tag = "obj"
            /\ p.delta.tag = "obj"
            /\ p.delta.type.tag = "str"
            /\ p.delta.type.name = "text_delta"
         THEN IF p.delta.text.tag = "str" THEN Ok(p.delta.text.s) ELSE Ok(<<>>)
         ELSE Ok(<<>>)

\* A decoder that looks for the delta type "text" instead of "text_delta".
claude3_chunk_wrong_marker(p) ==
    IF p.tag = "invalid" THEN Err("parse")
    ELSE IF /\ p.tag = "obj"
            /\ p.delta.tag = "obj"
            /\ p.delta.type.tag = "str"
            /\ p.delta.type.name = "text"
         THEN IF p.delta.text.tag = "str"
              THEN Ok(p.delta.text.s)
              ELSE Err("text")
         ELSE Ok(<<>>)

\* process_response, the arm of the two Claude 3 identifiers with streaming = true.
claude3_chunk(p) ==
    IF p.tag = "invalid" THEN Err("parse")
    ELSE IF /\ p.tag = "obj"
            /\ p.delta.tag = "obj"
            /\ p.delta.type.tag = "str"
            /\ p.delta.type.name = "text_delta"
         THEN IF p.delta.text.tag = "str"
              THEN Ok(p.delta.text.s)
              ELSE Err("text")
         ELSE Ok(<<>>)

\* A decoder whose streaming match lacks the Haiku identifier.
process_response_sonnet_only(model_id, p, streaming) ==
    IF ~streaming
    THEN IF model_id \in {Sonnet, Haiku}
         THEN claude3_complete(p)
         ELSE Err("Unknown model ID")
    ELSE IF model_id \in {Sonnet}
         THEN claude3_chunk(p)
         ELSE Err("Unknown model ID")

\* process_response(model_id, payload_bytes, streaming)
process_response(model_id, p, streaming) ==
    IF ~streaming
    THEN IF model_id \in {Sonnet, Haiku}
         THEN claude3_complete(p)
         ELSE Err("Unknown model ID")
    ELSE IF model_id \in {Sonnet, Haiku}
         THEN claude3_chunk(p)
         ELSE Err("Unknown model ID")

\* The errors of process_response that report a malformed payload.
MalformedResponseError == {"parse", "text"}

\* ---------------------------------------------------------------- request building
\* Outcomes of load_config("model_config.ron").
ModelDefaults == [anthropic_version |-> "cfg.anthropic_version", max_tokens |-> "cfg.max_tokens",
                  role |-> "cfg.role", default_content_type |-> "cfg.default_content_type"]
ConfigOutcomes == {"loaded", "failed"}

NoImageSource == [present |-> FALSE, image_type |-> "", data |-> "", media_type |-> <<>>]
NoBody == [anthropic_version |-> "", max_tokens |-> "", role |-> "", content_type |-> "",
           question |-> "", image |-> NoImageSource]
NoCall == [body |-> NoBody, content_type |-> "", accept |-> "", model_id |-> ""]

BuildOk(c) == [kind |-> "Ok", err |-> "none", call |-> c]
BuildErr(e) == [kind |-> "Err", err |-> e, call |-> NoCall]
BuildPanic(m) == [kind |-> "Panic", err |-> m, call |-> NoCall]
NoBuild == [kind |-> "None", err |-> "none", call |-> NoCall]

\* ClaudeImageSource built from the caller's image.
claude_image(image) ==
    IF image.present
    THEN [present |-> TRUE, image_type |-> "base64", data |-> image.base64,
          media_type |-> <<"image/", image.extension>>]
    ELSE NoImageSource

\* ClaudeV3Body::new(d.anthropic_version, d.max_tokens, d.role, d.default_content_type, question, image)
ClaudeV3Body(d, question, img) ==
    [anthropic_version |-> d.anthropic_version, max_tokens |-> d.max_tokens, role |-> d.role,
     content_type |-> d.default_content_type, question |-> question, image |-> img]

\* q_to_bcs_with_defaults(question, model_id, image), given the outcome of its
\* own load_config call.
q_to_bcs_with_defaults(question, model_id, image, cfg) ==
    IF cfg = "failed" THEN BuildErr("ConfigError")
    ELSE IF model_id = Sonnet
         THEN BuildOk([body |-> ClaudeV3Body(ModelDefaults, question, claude_image(image)),
                       content_type |-> "", accept |-> "", model_id |-> Sonnet])
    ELSE IF model_id = Haiku
         THEN BuildOk([body |-> ClaudeV3Body(ModelDefaults, question, claude_image(image)),
                       content_type |-> "", accept |-> "", model_id |-> Haiku])
    ELSE BuildPanic("not yet implemented")

\* bcs_to_bedrock_call(bcs), given whether convert_to_blob succeeds.
bcs_to_bedrock_call(bcs, blobOk) ==
    IF ~blobOk THEN BuildErr("SerializationError")
    ELSE BuildOk([body |-> bcs.body, content_type |-> "application/json",
                  accept |-> "*/*", model_id |-> bcs.model_id])

\* mk_bedrock_call(question, image, model_id)
mk_bedrock_call(question, image, model_id, cfg, blobOk) ==
    LET bcs == q_to_bcs_with_defaults(question, model_id, image, cfg)
    IN IF bcs.kind = "Ok" THEN bcs_to_bedrock_call(bcs.call, blobOk) ELSE bcs

\* ---------------------------------------------------------------- capability query
\* Answers of get_foundation_model: the send fails, the answer has no model
\* details, or the details carry response_streaming_supported = None/Some(b).
CapabilityAnswers == {"TransportError", "NoModelDetails", "Absent", "True", "False"}

CapOk(b) == [kind |-> "Ok", flag |-> b, err |-> "none"]
CapErr(e) == [kind |-> "Err", flag |-> FALSE, err |-> e]

\* A capability check that reports a missing streaming flag as an error.
check_for_streaming_strict(ans) ==
    IF ans = "TransportError" THEN CapErr("TransportError")
    ELSE IF ans = "NoModelDetails" THEN CapErr("Unable to get model details")
    ELSE IF ans = "True" THEN CapOk(TRUE)
    ELSE IF ans = "False" THEN CapOk(FALSE)
    ELSE CapErr("streaming capability unknown")

\* check_for_streaming(m, c), given the collaborator's answer.
check_for_streaming(ans) ==
    IF ans = "TransportError" THEN CapErr("TransportError")
    ELSE IF ans = "NoModelDetails" THEN CapErr("Unable to get model details")
    ELSE IF ans = "True" THEN CapOk(TRUE)
    ELSE IF ans = "False" THEN CapOk(FALSE)
    ELSE CapOk(FALSE)

\* ---------------------------------------------------------------- ask_bedrock helpers
\* A Captioning arm that tests the model before it tests the image.
captioning_arm_model_first(img, m) ==
    IF m # Sonnet /\ m # Haiku THEN "exit"
    ELSE IF img.present THEN "mk_bedrock_call" ELSE "no_image"

\* A Captioning arm without the model test.
captioning_arm_no_model_test(img, m) ==
    IF img.present THEN "mk_bedrock_call" ELSE "no_image"

\* ask_bedrock, Captioning arm: the tests made before the request is built.
captioning_arm(img, m) ==
    IF img.present
    THEN IF m # Sonnet /\ m # Haiku THEN "exit" ELSE "mk_bedrock_call"
    ELSE "no_image"

\* A dispatcher that queries the capability in both run types.
after_build_always_query(rt) == "check_for_streaming"

\* A dispatcher that invokes without querying the capability.
after_build_never_query(rt) == "call_bedrock"

\* ask_bedrock: the step that follows a successful mk_bedrock_call.
after_build(rt) ==
    IF rt = "Standard" THEN "check_for_streaming" ELSE "call_bedrock"

NL == "\n"

\* A call_bedrock that echoes the text in both run types.
echo_always(rt, out, text) == out \o text \o <<NL>>

\* call_bedrock: match run_type on a decoded text; println! in Standard only.
echo(rt, out, text) ==
    IF rt = "Captioning" THEN out ELSE out \o text \o <<NL>>

\* A loop that accumulates the text of a chunk without echoing it.
print_nothing(out, text) == out

\* print!("{}", &text)
print_text(out, text) == out \o text

\* A push that puts the new text in front of the accumulated text.
push_front(out, text) == text \o out

\* output.push_str(&text)
push_str(out, text) == out \o text

\* ---------------------------------------------------------------- state
VARIABLES
    pc,               \* position of the process: idle, inside ask_bedrock, returned, exited, panicked
    question, image, model_id, run_type,   \* arguments of the current ask_bedrock call
    bcall,            \* result of mk_bedrock_call in the current call
    output,           \* call_bedrock_stream: the accumulated String
    received,         \* events the stream delivered so far, each with its decode result
    stdout,           \* characters the current call wrote to standard output
    stderr,           \* messages the current call wrote to standard error
    result,           \* value ask_bedrock returned
    exit_code,        \* status of std::process::exit, 0 while the process runs
    calls,            \* ask_bedrock calls started by the process
    nConfigLoads,     \* load_config calls made by the process
    nBuild,           \* mk_bedrock_call calls of the current call
    nCapQuery,        \* check_for_streaming calls of the current call
    nInvoke,          \* invoke_model sends of the current call
    nStreamInvoke,    \* invoke_model_with_response_stream sends of the current call
    nDecodeComplete,  \* process_response(.., false) calls of the current call
    capability,       \* answer of the capability collaborator in the current call
    stream_end,       \* how the response stream of the current call finished
    response,         \* body invoke_model answered in the current call
    streams           \* the call_bedrock_stream calls that run concurrently

vars == <<pc, question, image, model_id, run_type, bcall, output, received, stdout, stderr,
          result, exit_code, calls, nConfigLoads, nBuild, nCapQuery, nInvoke, nStreamInvoke,
          nDecodeComplete, capability, stream_end, response, streams>>

args == <<question, image, model_id, run_type>>
counters == <<nConfigLoads, nBuild, nCapQuery, nInvoke, nStreamInvoke, nDecodeComplete>>

NoImageMsg == "No images provided. Captioning aborted."
SorryMsg == "SORRY! The model you selected is not able to caption images."
ProcessingMsg == "Error processing response"

Init ==
    /\ pc = "idle"
    /\ question = "" /\ image = NoImage /\ model_id = "" /\ run_type = "Standard"
    /\ bcall = NoBuild
    /\ output = <<>> /\ received = <<>>
    /\ stdout = <<>> /\ stderr = <<>>
    /\ result = NoResult
    /\ exit_code = 0
    /\ calls = 0
    /\ nConfigLoads = 0 /\ nBuild = 0 /\ nCapQuery = 0 /\ nInvoke = 0
    /\ nStreamInvoke = 0 /\ nDecodeComplete = 0
    /\ capability = "none" /\ stream_end = "none" /\ response = NoPayload
    /\ streams = <<>>

\* The caller enters ask_bedrock(question, image, model_id, run_type, ..).
AskBedrock(q, img, m, rt) ==
    /\ pc \in {"idle", "returned"}
    /\ calls < MaxCalls
    /\ calls' = calls + 1
    /\ question' = q /\ image' = img /\ model_id' = m /\ run_type' = rt
    /\ pc' = "match_run_type"
    /\ bcall' = NoBuild /\ output' = <<>> /\ received' = <<>>
    /\ stdout' = <<>> /\ stderr' = <<>> /\ result' = NoResult
    /\ nBuild' = 0 /\ nCapQuery' = 0 /\ nInvoke' = 0 /\ nStreamInvoke' = 0
    /\ nDecodeComplete' = 0
    /\ capability' = "none" /\ stream_end' = "none" /\ response' = NoPayload
    /\ UNCHANGED <<exit_code, nConfigLoads, streams>>

\* ask_bedrock: match run_type, and the image and model checks of the
\* Captioning arm.
MatchRunType ==
    /\ pc = "match_run_type"
    /\ IF run_type = "Standard"
       THEN /\ pc' = "mk_bedrock_call"
            /\ UNCHANGED <<result, stderr, exit_code>>
       ELSE LET arm == captioning_arm(image, model_id)
            IN IF arm = "exit"
               THEN /\ stderr' = Append(stderr, SorryMsg)
                    /\ exit_code' = 1
                    /\ pc' = "exited"
                    /\ UNCHANGED result
               ELSE IF arm = "mk_bedrock_call"
               THEN /\ pc' = "mk_bedrock_call"
                    /\ UNCHANGED <<result, stderr, exit_code>>
               ELSE /\ result' = Err(NoImageMsg)
                    /\ pc' = "returned"
                    /\ UNCHANGED <<stderr, exit_code>>
    /\ UNCHANGED <<args, streams, capability, stream_end, response, bcall, output, received, stdout, calls, counters>>

\* ask_bedrock: let bcall = mk_bedrock_call(question, image, model_id)?
MkBedrockCall ==
    /\ pc = "mk_bedrock_call"
    /\ \E cfg \in ConfigOutcomes, blobOk \in BOOLEAN :
         LET b == mk_bedrock_call(question, image, model_id, cfg, blobOk)
         IN /\ bcall' = b
            /\ IF b.kind = "Ok"
               THEN /\ pc' = after_build(run_type)
                    /\ UNCHANGED result
               ELSE IF b.kind = "Err"
               THEN /\ pc' = "returned"
                    /\ result' = Err(b.err)
               ELSE /\ pc' = "panicked"
                    /\ UNCHANGED result
    /\ nBuild' = nBuild + 1
    /\ nConfigLoads' = nConfigLoads + 1
    /\ UNCHANGED <<args, streams, capability, stream_end, response, output, received, stdout, stderr, exit_code, calls,
                   nCapQuery, nInvoke, nStreamInvoke, nDecodeComplete>>

\* ask_bedrock, Standard arm: if check_for_streaming(model_id, bedrock_client).await?
CheckForStreaming ==
    /\ pc = "check_for_streaming"
    /\ \E ans \in CapabilityAnswers :
         LET s == check_for_streaming(ans)
         IN /\ capability' = ans
            /\ IF s.kind = "Err"
               THEN /\ pc' = "returned"
                    /\ result' = Err(s.err)
               ELSE /\ pc' = IF s.flag THEN "call_bedrock_stream" ELSE "call_bedrock"
                    /\ UNCHANGED result
    /\ nCapQuery' = nCapQuery + 1
    /\ UNCHANGED <<args, streams, stream_end, response, bcall, output, received, stdout, stderr, exit_code, calls,
                   nConfigLoads, nBuild, nInvoke, nStreamInvoke, nDecodeComplete>>

\* call_bedrock(bc, c, run_type): invoke_model().send().await? fails.
CallBedrockSendFails ==
    /\ pc = "call_bedrock"
    /\ nInvoke' = nInvoke + 1
    /\ result' = Err("TransportError")
    /\ pc' = "returned"
    /\ UNCHANGED <<args, streams, capability, stream_end, response, bcall, output, received, stdout, stderr, exit_code, calls,
                   nConfigLoads, nBuild, nCapQuery, nStreamInvoke, nDecodeComplete>>

\* call_bedrock(bc, c, run_type): the send answers with a body, which is
\* decoded, echoed in Standard mode, and returned.
CallBedrock(p) ==
    /\ pc = "call_bedrock"
    /\ response' = p
    /\ nInvoke' = nInvoke + 1
    /\ nDecodeComplete' = nDecodeComplete + 1
    /\ LET response_text == process_response(bcall.call.model_id, p, FALSE)
       IN IF response_text.kind = "Ok"
          THEN /\ stdout' = echo(run_type, stdout, response_text.text)
               /\ result' = Ok(response_text.text)
               /\ pc' = "returned"
          ELSE IF response_text.kind = "Err"
          THEN /\ result' = Err(ProcessingMsg)
               /\ pc' = "returned"
               /\ UNCHANGED stdout
          ELSE /\ pc' = "panicked"
               /\ UNCHANGED <<result, stdout>>
    /\ UNCHANGED <<args, streams, capability, stream_end, bcall, output, received, stderr, exit_code, calls,
                   nConfigLoads, nBuild, nCapQuery, nStreamInvoke>>

\* A streaming call that falls back to the single-shot call when its send fails.
CallBedrockStreamSendFallsBack ==
    /\ pc = "call_bedrock_stream"
    /\ nStreamInvoke' = nStreamInvoke + 1
    /\ \E ok \in BOOLEAN :
         IF ok
         THEN /\ pc' = "recv"
              /\ output' = <<>>
              /\ UNCHANGED result
         ELSE /\ pc' = "call_bedrock"
              /\ UNCHANGED <<result, output>>
    /\ UNCHANGED <<args, streams, capability, stream_end, response, bcall, received, stdout, stderr, exit_code, calls,
                   nConfigLoads, nBuild, nCapQuery, nInvoke, nDecodeComplete>>

\* call_bedrock_stream(bc, c): invoke_model_with_response_stream().send().await?
\* and let mut output = String::new().
CallBedrockStreamSend ==
    /\ pc = "call_bedrock_stream"
    /\ nStreamInvoke' = nStreamInvoke + 1
    /\ \E ok \in BOOLEAN :
         IF ok
         THEN /\ pc' = "recv"
              /\ output' = <<>>
              /\ UNCHANGED result
         ELSE /\ pc' = "returned"
              /\ result' = Err("TransportError")
              /\ UNCHANGED output
    /\ UNCHANGED <<args, streams, capability, stream_end, response, bcall, received, stdout, stderr, exit_code, calls,
                   nConfigLoads, nBuild, nCapQuery, nInvoke, nDecodeComplete>>

\* An event of the stream, as kept in received.
ChunkEvent(p, r) == [kind |-> "Chunk", bytes |-> TRUE, payload |-> p, res |-> r]
EmptyChunkEvent == [kind |-> "Chunk", bytes |-> FALSE, payload |-> InvalidPayload, res |-> NoResult]
OtherEvent == [kind |-> "Other", bytes |-> FALSE, payload |-> InvalidPayload, res |-> NoResult]

\* A receive loop that answers a failed recv() with the text gathered so far.
RecvFailsReturnsPartial ==
    /\ pc = "recv"
    /\ stream_end' = "aborted"
    /\ result' = Ok(output)
    /\ pc' = "returned"
    /\ UNCHANGED <<args, streams, capability, response, bcall, output, received, stdout, stderr, exit_code, calls, counters>>

\* call_bedrock_stream: resp.body.recv().await? fails.
RecvFails ==
    /\ pc = "recv"
    /\ stream_end' = "aborted"
    /\ result' = Err("TransportError")
    /\ pc' = "returned"
    /\ UNCHANGED <<args, streams, capability, response, bcall, output, received, stdout, stderr, exit_code, calls, counters>>

\* call_bedrock_stream: recv() yields None; println!() and Ok(output).
RecvEnd ==
    /\ pc = "recv"
    /\ stream_end' = "ended"
    /\ stdout' = stdout \o <<NL>>
    /\ result' = Ok(output)
    /\ pc' = "returned"
    /\ UNCHANGED <<args, streams, capability, response, bcall, output, received, stderr, exit_code, calls, counters>>

\* A receive loop that returns the decode error of a chunk to its caller.
RecvChunkPropagates(p, flushOk) ==
    /\ pc = "recv"
    /\ Len(received) < MaxEvents
    /\ LET response_text == process_response(bcall.call.model_id, p, TRUE)
       IN /\ received' = Append(received, ChunkEvent(p, response_text))
          /\ IF response_text.kind = "Ok"
             THEN /\ output' = push_str(output, response_text.text)
                  /\ stdout' = print_text(stdout, response_text.text)
                  /\ IF flushOk
                     THEN UNCHANGED <<pc, result>>
                     ELSE /\ result' = Err("IoError")
                          /\ pc' = "returned"
                  /\ UNCHANGED stderr
             ELSE /\ result' = Err(ProcessingMsg)
                  /\ pc' = "returned"
                  /\ UNCHANGED <<stderr, output, stdout>>
    /\ UNCHANGED <<args, streams, capability, stream_end, response, bcall, exit_code, calls, counters>>

\* call_bedrock_stream: recv() yields a Chunk with payload bytes p.
RecvChunk(p, flushOk) ==
    /\ pc = "recv"
    /\ Len(received) < MaxEvents
    /\ LET response_text == process_response(bcall.call.model_id, p, TRUE)
       IN /\ received' = Append(received, ChunkEvent(p, response_text))
          /\ IF response_text.kind = "Ok"
             THEN /\ output' = push_str(output, response_text.text)
                  /\ stdout' = print_text(stdout, response_text.text)
                  /\ IF flushOk
                     THEN UNCHANGED <<pc, result>>
                     ELSE /\ result' = Err("IoError")
                          /\ pc' = "returned"
                  /\ UNCHANGED stderr
             ELSE /\ stderr' = Append(stderr, ProcessingMsg)
                  /\ UNCHANGED <<pc, result, output, stdout>>
    /\ UNCHANGED <<args, streams, capability, stream_end, response, bcall, exit_code, calls, counters>>

\* call_bedrock_stream: recv() yields a Chunk whose bytes are None.
RecvEmptyChunk ==
    /\ pc = "recv"
    /\ Len(received) < MaxEvents
    /\ received' = Append(received, EmptyChunkEvent)
    /\ UNCHANGED <<pc, args, streams, capability, stream_end, response, bcall, output, stdout, stderr, result, exit_code, calls, counters>>

\* A receive loop that skips an event that is no Chunk.
RecvOtherSkips ==
    /\ pc = "recv"
    /\ Len(received) < MaxEvents
    /\ received' = Append(received, OtherEvent)
    /\ UNCHANGED <<pc, args, streams, capability, stream_end, response, bcall, output, stdout, stderr, result, exit_code, calls, counters>>

\* call_bedrock_stream: recv() yields an event that is no Chunk; panic!.
RecvOther ==
    /\ pc = "recv"
    /\ Len(received) < MaxEvents
    /\ received' = Append(received, OtherEvent)
    /\ pc' = "panicked"
    /\ UNCHANGED <<args, streams, capability, stream_end, response, bcall, output, stdout, stderr, result, exit_code, calls, counters>>

Next ==
    \/ \E q \in Questions, img \in Images, m \in ModelIds, rt \in RunTypes : AskBedrock(q, img, m, rt)
    \/ MatchRunType
    \/ MkBedrockCall
    \/ CheckForStreaming
    \/ CallBedrockSendFails
    \/ \E p \in ResponsePayloads : CallBedrock(p)
    \/ CallBedrockStreamSend
    \/ RecvFails
    \/ RecvEnd
    \/ \E p \in ChunkPayloads, flushOk \in BOOLEAN : RecvChunk(p, flushOk)
    \/ RecvEmptyChunk
    \/ RecvOther

Spec == Init /\ [][Next]_vars

\* One resolution of the pending resp.body.recv().await of call_bedrock_stream.
RecvStep ==
    \/ RecvFails
    \/ RecvEnd
    \/ \E p \in ChunkPayloads, flushOk \in BOOLEAN : RecvChunk(p, flushOk)
    \/ RecvEmptyChunk
    \/ RecvOther

\* The steps of a process that calls ask_bedrock once.
SingleCallNext == Next /\ calls' = 1

\* A process that calls ask_bedrock once, and whose transport resolves every
\* pending recv(): it delivers an event, ends the stream or aborts it.
FairSpec == Init /\ [][SingleCallNext]_vars /\ WF_vars(RecvStep)

TypeOK ==
    /\ pc \in {"idle", "match_run_type", "mk_bedrock_call", "check_for_streaming", "call_bedrock",
               "call_bedrock_stream", "recv", "returned", "exited", "panicked"}
    /\ run_type \in RunTypes
    /\ Len(received) <= MaxEvents
    /\ calls \in 0..MaxCalls

\* ---------------------------------------------------------------- concurrent streaming calls
\* Largest number of events each of the concurrent streams delivers.
MaxConcEvents == 2

\* Two call_bedrock_stream calls run as interleaved tasks of one process.
ConcCalls == {1, 2}

\* Payloads the chunks of the concurrent streams carry.
ConcPayloads ==
    {ObjPayload(ObjDelta(StrType("text_delta"), StrField(<<"a">>)), AbsentContent),
     ObjPayload(ObjDelta(StrType("text_delta"), StrField(<<"b">>)), AbsentContent),
     ObjPayload(ObjDelta(StrType("text_delta"), AbsentField), AbsentContent)}

\* The locals of one call_bedrock_stream call: c.model_id, its position, its
\* output String, the events it received and the value it returned.
StreamCall(m) ==
    [model_id |-> m, pc |-> "recv", output |-> <<>>, received |-> <<>>, result |-> NoResult]

\* Both calls have sent invoke_model_with_response_stream and hold a stream.
ConcInit ==
    /\ pc = "idle"
    /\ question = "" /\ image = NoImage /\ model_id = "" /\ run_type = "Standard"
    /\ bcall = NoBuild
    /\ output = <<>> /\ received = <<>>
    /\ stdout = <<>> /\ stderr = <<>>
    /\ result = NoResult
    /\ exit_code = 0
    /\ calls = 0
    /\ nConfigLoads = 0 /\ nBuild = 0 /\ nCapQuery = 0 /\ nInvoke = 0
    /\ nStreamInvoke = 0 /\ nDecodeComplete = 0
    /\ capability = "none" /\ stream_end = "none" /\ response = NoPayload
    /\ streams \in [ConcCalls -> {StreamCall(m) : m \in KnownModels}]

\* The variables the concurrent stream loops leave alone.
sequential == <<pc, args, bcall, output, received, result, exit_code, calls, counters,
                capability, stream_end, response>>

\* call_bedrock_stream of call c: resp.body.recv().await? fails.
ConcRecvFails(c) ==
    /\ streams[c].pc = "recv"
    /\ streams' = [streams EXCEPT ![c].result = Err("TransportError"), ![c].pc = "returned"]
    /\ UNCHANGED <<sequential, stdout, stderr>>

\* call_bedrock_stream of call c: recv() yields None; println!() and Ok(output).
ConcRecvEnd(c) ==
    /\ streams[c].pc = "recv"
    /\ stdout' = stdout \o <<NL>>
    /\ streams' = [streams EXCEPT ![c].result = Ok(streams[c].output), ![c].pc = "returned"]
    /\ UNCHANGED <<sequential, stderr>>

\* Stream loops that push the decoded text to one String shared by the calls.
ConcRecvChunkShared(c, p, flushOk) ==
    /\ streams[c].pc = "recv"
    /\ Len(streams[c].received) < MaxConcEvents
    /\ LET response_text == process_response(streams[c].model_id, p, TRUE)
           rcvd == [streams EXCEPT ![c].received = Append(@, ChunkEvent(p, response_text))]
       IN IF response_text.kind = "Ok"
          THEN /\ stdout' = print_text(stdout, response_text.text)
               /\ streams' =
                    [d \in ConcCalls |->
                       [rcvd[d] EXCEPT
                          !.output = push_str(@, response_text.text),
                          !.result = IF d = c /\ ~flushOk THEN Err("IoError") ELSE @,
                          !.pc = IF d = c /\ ~flushOk THEN "returned" ELSE @]]
               /\ UNCHANGED stderr
          ELSE /\ stderr' = Append(stderr, ProcessingMsg)
               /\ streams' = rcvd
               /\ UNCHANGED stdout
    /\ UNCHANGED sequential

\* call_bedrock_stream of call c: recv() yields a Chunk with payload bytes p.
ConcRecvChunk(c, p, flushOk) ==
    /\ streams[c].pc = "recv"
    /\ Len(streams[c].received) < MaxConcEvents
    /\ LET response_text == process_response(streams[c].model_id, p, TRUE)
           rcvd == [streams EXCEPT ![c].received = Append(@, ChunkEvent(p, response_text))]
       IN IF response_text.kind = "Ok"
          THEN /\ stdout' = print_text(stdout, response_text.text)
               /\ streams' =
                    [rcvd EXCEPT
                       ![c].output = push_str(@, response_text.text),
                       ![c].result = IF flushOk THEN @ ELSE Err("IoError"),
                       ![c].pc = IF flushOk THEN @ ELSE "returned"]
               /\ UNCHANGED stderr
          ELSE /\ stderr' = Append(stderr, ProcessingMsg)
               /\ streams' = rcvd
               /\ UNCHANGED stdout
    /\ UNCHANGED sequential

\* call_bedrock_stream of call c: recv() yields a Chunk whose bytes are None.
ConcRecvEmptyChunk(c) ==
    /\ streams[c].pc = "recv"
    /\ Len(streams[c].received) < MaxConcEvents
    /\ streams' = [streams EXCEPT ![c].received = Append(@, EmptyChunkEvent)]
    /\ UNCHANGED <<sequential, stdout, stderr>>

\* call_bedrock_stream of call c: recv() yields an event that is no Chunk; the
\* task panics.
ConcRecvOther(c) ==
    /\ streams[c].pc = "recv"
    /\ Len(streams[c].received) < MaxConcEvents
    /\ streams' = [streams EXCEPT ![c].received = Append(@, OtherEvent), ![c].pc = "panicked"]
    /\ UNCHANGED <<sequential, stdout, stderr>>

ConcNext ==
    \E c \in ConcCalls :
        \/ ConcRecvFails(c)
        \/ ConcRecvEnd(c)
        \/ \E p \in ConcPayloads, flushOk \in BOOLEAN : ConcRecvChunk(c, p, flushOk)
        \/ ConcRecvEmptyChunk(c)
        \/ ConcRecvOther(c)

ConcSpec == ConcInit /\ [][ConcNext]_vars

\* ---------------------------------------------------------------- properties
\* The current call has left mk_bedrock_call.
BuildAttempted == bcall.kind # "None"

\* C1: request building with an identifier outside the known set returns an
\* UnknownModelError value; it neither succeeds nor aborts the process.  Stated
\* for the builds whose config load succeeded.
C1_UnknownModelReturnsError ==
    (BuildAttempted /\ model_id \notin KnownModels /\ bcall.err # "ConfigError")
        => (bcall.kind = "Err" /\ bcall.err = "UnknownModelError" /\ pc # "panicked")

\* Concatenation, in arrival order, of the decode_chunk results of the chunks
\* of evs that carry bytes and decode successfully.
RECURSIVE ConcatDecoded(_, _)
ConcatDecoded(m, evs) ==
    IF evs = <<>> THEN <<>>
    ELSE LET e == evs[Len(evs)]
             r == process_response(m, e.payload, TRUE)
         IN ConcatDecoded(m, SubSeq(evs, 1, Len(evs) - 1))
              \o (IF e.kind = "Chunk" /\ e.bytes /\ r.kind = "Ok" THEN r.text ELSE <<>>)

\* C2: while a streaming call receives, and when it returns its text at the end
\* of the stream, the text is the concatenation in arrival order of the decode
\* results of the chunks that decoded successfully.
C2_StreamTextIsConcatenation ==
    /\ pc = "recv" => output = ConcatDecoded(model_id, received)
    /\ (pc = "returned" /\ nStreamInvoke = 1 /\ result.kind = "Ok")
         => result.text = ConcatDecoded(model_id, received)

C2_Witness ==
    /\ pc = "returned" /\ nStreamInvoke = 1 /\ result = Ok(<<"a", "b">>)
    /\ Len(received) = 3
    /\ \E i \in 1..3 : received[i].res.kind = "Err"

\* The payload is a JSON object whose delta is an object of type "text_delta".
IsTextDelta(p) ==
    /\ p.tag = "obj"
    /\ p.delta.tag = "obj"
    /\ p.delta.type = StrType("text_delta")

\* Event i of the stream is a chunk with bytes, decoded for a known model.
DecodedChunk(i) ==
    /\ received[i].kind = "Chunk" /\ received[i].bytes
    /\ model_id \in KnownModels

\* C3: for a known model, a well-formed chunk whose delta type is not
\* "text_delta" (no delta, a delta that is no object, a delta without a type or
\* with another type) decodes to the empty string.
C3_NonTextDeltaIsEmpty ==
    \A i \in 1..Len(received) :
        (DecodedChunk(i) /\ received[i].payload.tag # "invalid"
            /\ ~IsTextDelta(received[i].payload))
          => received[i].res = Ok(<<>>)

C3_Witness ==
    \E i \in 1..Len(received) :
        /\ DecodedChunk(i)
        /\ received[i].payload.delta.type = StrType("input_json_delta")
        /\ received[i].payload.delta.text = StrField(<<"b">>)
        /\ received[i].res = Ok(<<>>)

\* C4 as stated: a text_delta chunk decodes to its text field whenever that
\* field is present, and to MalformedResponseError when it is missing.
C4_TextDeltaPresentOrMissing ==
    \A i \in 1..Len(received) :
        (DecodedChunk(i) /\ IsTextDelta(received[i].payload))
          => IF received[i].payload.delta.text.tag = "absent"
             THEN received[i].res.kind = "Err" /\ received[i].res.err \in MalformedResponseError
             ELSE /\ received[i].res.kind = "Ok"
                  /\ received[i].payload.delta.text.tag = "str"
                       => received[i].res.text = received[i].payload.delta.text.s

\* C4 amended: a text_delta chunk decodes to exactly its text field when that
\* field is a string, and to MalformedResponseError when the field is missing
\* or is not a string.
C4_TextDeltaStringOrMalformed ==
    \A i \in 1..Len(received) :
        (DecodedChunk(i) /\ IsTextDelta(received[i].payload))
          => IF received[i].payload.delta.text.tag = "str"
             THEN received[i].res = Ok(received[i].payload.delta.text.s)
             ELSE received[i].res.kind = "Err" /\ received[i].res.err \in MalformedResponseError

C4_Witness ==
    /\ Len(received) = 3
    /\ DecodedChunk(1) /\ IsTextDelta(received[1].payload)
    /\ received[1].payload.delta.text = AbsentField /\ received[1].res = Err("text")
    /\ IsTextDelta(received[2].payload)
    /\ received[2].payload.delta.text = OtherField /\ received[2].res = Err("text")
    /\ IsTextDelta(received[3].payload) /\ received[3].res = Ok(<<"b">>)

\* The step receives a chunk with bytes.
ReceivesChunk ==
    /\ pc = "recv"
    /\ Len(received') = Len(received) + 1
    /\ received'[Len(received')].kind = "Chunk" /\ received'[Len(received')].bytes

\* An earlier chunk of the stream failed to decode.
HadMalformedChunk ==
    \E i \in 1..Len(received) :
        received[i].res.kind = "Err" /\ received[i].res.err \in MalformedResponseError

\* C5: a chunk that fails to decode with MalformedResponseError leaves the
\* accumulated output, the echoed text and the call's result as they were and
\* the loop awaits the next chunk; after such a chunk the text of a later valid
\* chunk is still appended, and a call that then returns its text returns the
\* text of all the other chunks.
C5_MalformedChunkIsDropped ==
    [][ /\ (ReceivesChunk /\ received'[Len(received')].res.kind = "Err")
           => /\ received'[Len(received')].res.err \in MalformedResponseError
              /\ output' = output /\ stdout' = stdout
              /\ result' = result /\ pc' = "recv"
        /\ (ReceivesChunk /\ HadMalformedChunk /\ received'[Len(received')].res.kind = "Ok")
           => output' = output \o received'[Len(received')].res.text
        /\ (pc = "recv" /\ HadMalformedChunk /\ pc' = "returned" /\ result'.kind = "Ok")
           => result'.text = ConcatDecoded(model_id, received)
      ]_vars

C5_Witness ==
    /\ pc = "returned" /\ nStreamInvoke = 1 /\ result = Ok(<<"a", "b">>)
    /\ Len(received) = 3
    /\ received[1].res = Ok(<<"a">>)
    /\ received[2].res = Err("text")
    /\ received[3].res = Ok(<<"b">>)
    /\ stderr = <<ProcessingMsg>>

\* Event i of the stream is not a chunk that carries content.
NotContentBearing(i) == received[i].kind # "Chunk" \/ ~received[i].bytes

PastMatch == pc \notin {"idle", "match_run_type"}

\* C7: a Captioning call without an image returns the "no image" failure for
\* every model identifier; it builds no request, makes no capability query,
\* never calls the invocation collaborator and does not end the process.
C7_CaptioningWithoutImageFails ==
    (run_type = "Captioning" /\ ~image.present /\ PastMatch)
      => /\ pc = "returned" /\ result = Err(NoImageMsg)
         /\ bcall = NoBuild /\ nBuild = 0 /\ nCapQuery = 0
         /\ nInvoke = 0 /\ nStreamInvoke = 0 /\ nDecodeComplete = 0
         /\ exit_code = 0

C7_Witness ==
    /\ run_type = "Captioning" /\ ~image.present /\ model_id \notin KnownModels
    /\ pc = "returned" /\ result = Err(NoImageMsg)

\* C8: a Captioning call with an image and a model outside the two multimodal
\* identifiers ends in the fatal path: the message is printed and the process
\* exits with a non-zero status before any request is built or any invocation
\* is made, and no result is returned.
C8_CaptioningUnsupportedModelExits ==
    (run_type = "Captioning" /\ image.present /\ model_id \notin {Sonnet, Haiku} /\ PastMatch)
      => /\ pc = "exited" /\ exit_code # 0
         /\ stderr = <<SorryMsg>>
         /\ result = NoResult
         /\ bcall = NoBuild /\ nBuild = 0 /\ nCapQuery = 0
         /\ nInvoke = 0 /\ nStreamInvoke = 0

C8_Witness ==
    /\ run_type = "Captioning" /\ image.present /\ model_id = "ai21.j2-ultra-v1"
    /\ pc = "exited" /\ exit_code = 1

\* C9: a Captioning call never queries the capability and never enters the
\* streaming protocol; it invokes at most once, single-shot, decodes only what
\* that invoke answered, and a returned text comes from exactly one invoke and
\* one decode of the complete response.
C9_CaptioningNeverStreams ==
    run_type = "Captioning"
      => /\ nCapQuery = 0 /\ nStreamInvoke = 0
         /\ pc \notin {"check_for_streaming", "call_bedrock_stream", "recv"}
         /\ received = <<>>
         /\ nInvoke <= 1 /\ nDecodeComplete <= nInvoke
         /\ (pc = "returned" /\ result.kind = "Ok") => (nInvoke = 1 /\ nDecodeComplete = 1)

C9_Witness ==
    /\ run_type = "Captioning" /\ pc = "returned" /\ result = Ok(<<"b">>)
    /\ nInvoke = 1 /\ nDecodeComplete = 1 /\ nCapQuery = 0

\* C10: a Captioning call writes nothing to standard output in any outcome;
\* the decoded text is carried by the return value only.
C10_CaptioningLeavesStdout ==
    run_type = "Captioning" => stdout = <<>>

C10_Witness ==
    /\ run_type = "Captioning" /\ pc = "returned" /\ result = Ok(<<"a">>)
    /\ stdout = <<>>

\* C11: in Standard mode an answer without a streaming flag does not fail the
\* call: it is taken as "no streaming" and the call goes on to one single-shot
\* invoke; the streaming protocol is entered only on a flag that is present
\* and true.
C11_AbsentFlagIsNoStreaming ==
    run_type = "Standard"
      => /\ capability = "Absent"
              => /\ nStreamInvoke = 0
                 /\ pc \notin {"call_bedrock_stream", "recv"}
                 /\ pc = "call_bedrock" \/ nInvoke = 1
         /\ (nStreamInvoke >= 1 \/ pc \in {"call_bedrock_stream", "recv"})
              => capability = "True"

C11_Witness ==
    /\ run_type = "Standard" /\ capability = "Absent"
    /\ pc = "returned" /\ result = Ok(<<"a">>)
    /\ nInvoke = 1 /\ nStreamInvoke = 0

\* call_bedrock received a response body and decoded it for a known model.
DecodedComplete == nDecodeComplete = 1 /\ model_id \in KnownModels

\* The response is an object with a non-empty content list of text items.
HasFirstText(p) ==
    /\ p.tag = "obj" /\ p.content.tag = "list"
    /\ Len(p.content.items) >= 1
    /\ \A i \in 1..Len(p.content.items) : p.content.items[i].text.tag = "str"

\* C12: for a known model the non-streaming call returns the text of the first
\* content item; a payload that does not parse or lacks an expected field, a
\* content list without items included, makes the call return a failure: it
\* neither aborts nor returns text.
C12_DecodeCompleteFirstTextOrError ==
    DecodedComplete
      => IF HasFirstText(response)
         THEN pc = "returned" /\ result = Ok(response.content.items[1].text.s)
         ELSE pc = "returned" /\ result.kind = "Err"

\* The payload is a protocol event without text (message start, message stop).
IsPlainEvent(p) == p = ObjPayload(AbsentDelta, AbsentContent)

\* The payload is a text delta that carries a string.
IsTextFragment(p) == IsTextDelta(p) /\ p.delta.text.tag = "str"

\* The texts of the text deltas of evs, in arrival order.
RECURSIVE DeltaTexts(_)
DeltaTexts(evs) ==
    IF evs = <<>> THEN <<>>
    ELSE LET e == evs[Len(evs)]
         IN DeltaTexts(SubSeq(evs, 1, Len(evs) - 1))
              \o (IF IsTextFragment(e.payload) THEN <<e.payload.delta.text.s>> ELSE <<>>)

\* Concatenation of a sequence of texts.
RECURSIVE Flatten(_)
Flatten(ts) == IF ts = <<>> THEN <<>> ELSE Head(ts) \o Flatten(Tail(ts))

\* The content lists that carry the texts ts in order, each item holding the
\* text of one or more consecutive deltas.
RECURSIVE Contents(_)
Contents(ts) ==
    IF ts = <<>> THEN {<<>>}
    ELSE UNION { { <<[text |-> StrField(Flatten(SubSeq(ts, 1, k)))]>> \o rest :
                     rest \in Contents(SubSeq(ts, k + 1, Len(ts))) } : k \in 1..Len(ts) }

\* A streaming call returned at the end of a stream made of plain protocol
\* events and at least one text delta.
StreamedMessage ==
    /\ pc = "returned" /\ stream_end = "ended" /\ result.kind = "Ok"
    /\ \A i \in 1..Len(received) :
          /\ received[i].kind = "Chunk" /\ received[i].bytes
          /\ IsPlainEvent(received[i].payload) \/ IsTextFragment(received[i].payload)
    /\ DeltaTexts(received) # <<>>

\* C13 as stated: the text of a streamed message equals decode_complete of
\* every non-streamed response with the same content.
C13_StreamEqualsCompleteAnyContent ==
    StreamedMessage
      => \A c \in Contents(DeltaTexts(received)) :
            process_response(model_id, ObjPayload(AbsentDelta, ListContent(c)), FALSE)
              = Ok(result.text)

\* C13 amended: the text of a streamed message equals decode_complete of the
\* non-streamed response that carries the same text in a single content item.
C13_StreamEqualsCompleteSingleItem ==
    StreamedMessage
      => \A c \in Contents(DeltaTexts(received)) :
            Len(c) = 1
              => process_response(model_id, ObjPayload(AbsentDelta, ListContent(c)), FALSE)
                   = Ok(result.text)

C13_Witness ==
    /\ StreamedMessage
    /\ Len(received) = 3
    /\ IsPlainEvent(received[1].payload)
    /\ DeltaTexts(received) = << <<"b">>, <<"a">> >>
    /\ result = Ok(<<"b", "a">>)

\* The decode path (streaming or not) rejects model m as unknown, whatever the payload.
DecodeRejects(m, streaming) ==
    \A p \in ChunkPayloads \cup ResponsePayloads :
        process_response(m, p, streaming) = Err("Unknown model ID")

\* The decode path never rejects model m as unknown.
DecodeAccepts(m, streaming) ==
    \A p \in ChunkPayloads \cup ResponsePayloads :
        process_response(m, p, streaming) # Err("Unknown model ID")

\* C14: the identifiers the request builder constructs for are the identifiers
\* the non-streaming decoder accepts and the identifiers the streaming decoder
\* accepts: a build whose config load and serialization succeed yields a
\* request exactly when neither decode path rejects the identifier as unknown.
C14_BuildSetEqualsDecodeSets ==
    (BuildAttempted /\ bcall.err \notin {"ConfigError", "SerializationError"})
      => IF bcall.kind = "Ok"
         THEN DecodeAccepts(model_id, FALSE) /\ DecodeAccepts(model_id, TRUE)
         ELSE DecodeRejects(model_id, FALSE) /\ DecodeRejects(model_id, TRUE)

C14_Witness ==
    /\ BuildAttempted /\ model_id = "anthropic.claude-v2" /\ bcall.kind = "Panic"
    /\ DecodeRejects(model_id, FALSE) /\ DecodeRejects(model_id, TRUE)
    /\ DecodeAccepts(Haiku, TRUE) /\ DecodeAccepts(Sonnet, FALSE)

\* Invocations (single-shot or streaming) made by the current call.
Invocations == nInvoke + nStreamInvoke

\* C15: a Standard call builds the request, then queries the capability, then
\* invokes: the query is made at most once, only after a successful build, and
\* exactly once before any invocation; after a failed build or a failed query
\* the invocation collaborator is never called.
C15_StandardBuildQueryInvoke ==
    run_type = "Standard"
      => /\ nCapQuery <= 1
         /\ nCapQuery = 1 => (nBuild = 1 /\ bcall.kind = "Ok")
         /\ (Invocations >= 1 \/ pc \in {"call_bedrock", "call_bedrock_stream", "recv"})
              => (nCapQuery = 1 /\ capability \in {"Absent", "True", "False"})
         /\ bcall.kind \in {"Err", "Panic"} => (nCapQuery = 0 /\ Invocations = 0)
         /\ capability \in {"TransportError", "NoModelDetails"}
              => (Invocations = 0 /\ pc = "returned" /\ result.kind = "Err")

C15_Witness ==
    /\ run_type = "Standard" /\ bcall.kind = "Ok"
    /\ capability = "NoModelDetails" /\ nCapQuery = 1
    /\ pc = "returned" /\ Invocations = 0

\* The call returned the transport's failure to its caller.
ReturnedTransportError == pc = "returned" /\ result = Err("TransportError")

\* C16: a call hands its envelope to the invocation collaborator at most once,
\* single-shot or streaming and never both; a transport failure of the
\* capability query, of the invoke or of a stream receive ends the call with
\* that failure, and no further invocation follows it.
C16_InvokedAtMostOnceNoRetry ==
    /\ Invocations <= 1
    /\ nCapQuery <= 1
    /\ capability = "TransportError" => (ReturnedTransportError /\ Invocations = 0)
    /\ (nInvoke = 1 /\ nDecodeComplete = 0) => ReturnedTransportError
    /\ (nStreamInvoke = 1 /\ pc # "recv" /\ received = <<>> /\ stream_end = "none")
         => ReturnedTransportError
    /\ stream_end = "aborted" => ReturnedTransportError

C16_Witness ==
    /\ stream_end = "aborted" /\ ReturnedTransportError
    /\ nStreamInvoke = 1 /\ nInvoke = 0
    /\ Len(received) = 2 /\ output = <<"a", "b">>

\* A returned streaming call answered the end of its stream with the
\* accumulated text and an abort of its stream with an error and no text.
StreamOutcome ==
    /\ pc = "returned"
    /\ stream_end = "ended" => result = Ok(ConcatDecoded(model_id, received))
    /\ stream_end = "aborted" => (result.kind = "Err" /\ result.text = <<>>)

\* C17: a streaming call that awaits its stream terminates once the transport
\* resolves the await: it returns the accumulated text at the end of the
\* stream and an error when the stream is aborted (or it has aborted on an
\* event that is no chunk); it does not wait forever.
C17_StreamingCallTerminates ==
    (pc = "recv") ~> (pc = "panicked" \/ StreamOutcome)

C17_Witness ==
    /\ pc = "returned" /\ stream_end = "aborted" /\ result = Err("TransportError")
    /\ Len(received) = 1 /\ output = <<"a">>

\* C18: in Standard mode the text written to standard output matches the text
\* of the call: while a streaming call awaits the next chunk the text echoed so
\* far is the accumulated output, the texts of the decoded chunks in arrival
\* order; a call that returns its text has written that text once, followed by
\* a line end; a non-streaming call whose decoding fails has written nothing.
C18_StandardEchoMatchesText ==
    run_type = "Standard"
      => /\ pc = "recv" => (stdout = output /\ stdout = ConcatDecoded(model_id, received))
         /\ (pc = "returned" /\ result.kind = "Ok") => stdout = result.text \o <<NL>>
         /\ (nInvoke = 1 /\ result.kind # "Ok") => stdout = <<>>
         /\ Invocations = 0 => stdout = <<>>

C18_Witness ==
    /\ run_type = "Standard" /\ pc = "recv"
    /\ Len(received) = 3 /\ received[2].res.kind = "Err"
    /\ stdout = <<"b", "a">> /\ output = <<"b", "a">>

\* C20: over the calls of one process the defaults are loaded at most once and
\* never by a call: a request build makes no load_config call of its own, and
\* a build (serialization aside) fails only with UnknownModelError.
C20_BuildLoadsNoConfig ==
    /\ nConfigLoads <= 1
    /\ BuildAttempted => nConfigLoads = 0
    /\ (bcall.kind = "Err" /\ bcall.err # "SerializationError")
         => bcall.err = "UnknownModelError"

\* C19: in every interleaving of two concurrent streaming calls, the text each
\* call accumulates and returns is the text it returns when it runs alone, the
\* concatenation of the decode results of its own chunks; no text of the other
\* call's chunks enters it.
C19_ConcurrentCallsIndependent ==
    \A c \in DOMAIN streams :
        /\ streams[c].output = ConcatDecoded(streams[c].model_id, streams[c].received)
        /\ streams[c].result.kind = "Ok"
             => streams[c].result.text = ConcatDecoded(streams[c].model_id, streams[c].received)

C19_Witness ==
    /\ DOMAIN streams = ConcCalls
    /\ streams[1].result = Ok(<<"a", "a">>)
    /\ streams[2].result = Ok(<<"b">>)
    /\ Len(streams[2].received) = 2
    /\ stdout = <<"a", "b", "a", NL, NL>>

====
